---- MODULE Spec2Model ----
(***************************************************************************)
(* Regime classification, strategy dispatch, the four strategy evaluators  *)
(* (src/main.py, repeated in src/new.py) and the polling loop of           *)
(* src/new.py.                                                             *)
(*                                                                         *)
(* Units.  ADX, RSI and the stochastic readings are in their own points.   *)
(* The Bollinger width ratio, ATR and the volatility threshold are in      *)
(* tenths (2.0 is 20, 1.0 is 10).  Prices are in price units; a stop-loss  *)
(* is kept in half price units because atr_multiplier is 1.5.              *)
(*                                                                         *)
(* A reading is what `series.iloc[-1]` yields: a number, or NaN when the   *)
(* indicator library has no value for the last bar.  Python compares NaN   *)
(* with anything as False.                                                 *)
(***************************************************************************)
EXTENDS Integers, Sequences, FiniteSets, TLC

VARIABLES fn, nbars, inp, regime, strategy, result,
          pc, cycle, env, fetches, sleeps, slept, outcome, calls, first

vars == <<fn, nbars, inp, regime, strategy, result,
          pc, cycle, env, fetches, sleeps, slept, outcome, calls, first>>

evalVars == <<fn, nbars, inp, regime, strategy, result>>
loopVars == <<pc, cycle, env, fetches, sleeps, slept, outcome, calls, first>>

-----------------------------------------------------------------------------
(* Bounds of the model *)

\* readings range over threshold - Spread .. threshold + Spread
Spread == 1
\* bars beyond the longest window in the longest modelled OHLCV window
ExtraBars == 1
\* polling cycles the loop model runs before it is cut off
MaxCycles == 3

-----------------------------------------------------------------------------
(* Readings *)

NaN == [nan |-> TRUE, v |-> 0]
Num(x) == [nan |-> FALSE, v |-> x]

\* Python's `a > b` and `a < b` on floats: False as soon as one side is NaN
Gt_or_equal(a, b) == ~a.nan /\ ~b.nan /\ a.v >= b.v
Gt(a, b) == ~a.nan /\ ~b.nan /\ a.v > b.v
Lt(a, b) == ~a.nan /\ ~b.nan /\ a.v < b.v

\* the last value of an indicator over `period` bars on a window of n bars
Latest(n, period, x) == IF n >= period THEN Num(x) ELSE NaN

\* the last value of `series.rolling(window=w).mean()` of such an indicator
LatestSmoothed(n, period, w, x) == Latest(n, period + w - 1, x)

-----------------------------------------------------------------------------
(* Parameters and thresholds of the source *)

ADX_THRESHOLD == 25
BBANDS_WIDTH_THRESHOLD == 20
adx_window == 14
bbands_window == 20
smoothing_window == 5
adx_threshold == 25
volatility_threshold == 10
atr_window == 14
sma_short_window == 50
sma_long_window == 200
macd_slow == 26
macd_signal_period == 9
rsi_period == 14
rsi_overbought == 70
rsi_oversold == 30
stochastic_overbought == 80
stochastic_oversold == 20
stochastic_period == 14
stochastic_slowk == 3
stochastic_slowd == 3
\* atr_multiplier = 1.5, twice
atr_multiplier_x2 == 3
sleep_time == 60
risk_percentage == 5

-----------------------------------------------------------------------------
(* Regime classifier *)

identify_market_condition_combined_first(latest_adx, latest_bbands_width) ==
    IF Gt(latest_adx, Num(ADX_THRESHOLD))
    THEN "trending"
    ELSE IF Gt(latest_bbands_width, Num(BBANDS_WIDTH_THRESHOLD))
    THEN "volatile"
    ELSE "sideways"

identify_market_condition(latest_adx, latest_bbands_width) ==
    IF Gt(latest_adx, Num(ADX_THRESHOLD))
       /\ Gt(latest_bbands_width, Num(BBANDS_WIDTH_THRESHOLD))
    THEN "trending and volatile"
    ELSE IF Gt(latest_adx, Num(ADX_THRESHOLD))
    THEN "trending"
    ELSE IF Gt(latest_bbands_width, Num(BBANDS_WIDTH_THRESHOLD))
    THEN "volatile"
    ELSE "sideways"

-----------------------------------------------------------------------------
(* Strategy registry *)

select_strategy_based_on_condition_listed(market_condition) ==
    IF market_condition = "trending"
    THEN "hybrid_trend_following_strategy"
    ELSE IF market_condition = "sideways"
    THEN "sideways_market_strategy"
    ELSE IF market_condition = "volatile"
    THEN "volatile_market_strategy"
    ELSE IF market_condition = "trending and volatile"
    THEN "hybrid_trend_following_strategy"
    ELSE "default_strategy"

select_strategy_based_on_condition(market_condition) ==
    IF market_condition = "trending"
    THEN "hybrid_trend_following_strategy"
    ELSE IF market_condition = "sideways"
    THEN "sideways_market_strategy"
    ELSE IF market_condition = "volatile"
    THEN "volatile_market_strategy"
    ELSE "default_strategy"

-----------------------------------------------------------------------------
(* Values the evaluators return *)

None == [kind |-> "None", nan |-> FALSE, v |-> 0]
\* a float stop-loss, in half price units
Float2(r) == [kind |-> "float", nan |-> r.nan, v |-> r.v]

Str(s) == [type |-> "str", action |-> s, stop_loss |-> None]
Dict(a, sl) == [type |-> "dict", action |-> a, stop_loss |-> sl]
NoResult == [type |-> "none", action |-> "none", stop_loss |-> None]

\* close - 1.5 * atr and close + 1.5 * atr, in half price units
MinusAtr(close, atr) ==
    IF close.nan \/ atr.nan THEN NaN ELSE Num(2 * close.v - atr_multiplier_x2 * atr.v)
PlusAtr(close, atr) ==
    IF close.nan \/ atr.nan THEN NaN ELSE Num(2 * close.v + atr_multiplier_x2 * atr.v)

\* list.count(x)
Count(signals, x) == Cardinality({i \in DOMAIN signals : signals[i] = x})

-----------------------------------------------------------------------------
(* Sideways / mean-reversion evaluator *)

sideways_market_strategy_all(close, upperband, lowerband, rsi, slowk, slowd) ==
    IF Lt(close, lowerband) /\ Lt(rsi, Num(rsi_oversold))
       /\ (Lt(slowk, Num(stochastic_oversold)) /\ Gt(slowk, slowd))
    THEN "buy"
    ELSE IF Gt(close, upperband) /\ Gt(rsi, Num(rsi_overbought))
            /\ (Gt(slowk, Num(stochastic_overbought)) /\ Lt(slowk, slowd))
    THEN "sell"
    ELSE "hold"

sideways_market_strategy_sell_first(close, upperband, lowerband, rsi, slowk, slowd) ==
    IF Gt(close, upperband) \/ Gt(rsi, Num(rsi_overbought))
       \/ (Gt(slowk, Num(stochastic_overbought)) /\ Lt(slowk, slowd))
    THEN "sell"
    ELSE IF Lt(close, lowerband) \/ Lt(rsi, Num(rsi_oversold))
            \/ (Lt(slowk, Num(stochastic_oversold)) /\ Gt(slowk, slowd))
    THEN "buy"
    ELSE "hold"

sideways_market_strategy(close, upperband, lowerband, rsi, slowk, slowd) ==
    IF Lt(close, lowerband) \/ Lt(rsi, Num(rsi_oversold))
       \/ (Lt(slowk, Num(stochastic_oversold)) /\ Gt(slowk, slowd))
    THEN "buy"
    ELSE IF Gt(close, upperband) \/ Gt(rsi, Num(rsi_overbought))
            \/ (Gt(slowk, Num(stochastic_overbought)) /\ Lt(slowk, slowd))
    THEN "sell"
    ELSE "hold"

-----------------------------------------------------------------------------
(* Trend-following evaluator *)

Votes(sma_short, sma_long, macd, macdsignal, adx) ==
    <<IF Gt(sma_short, sma_long) THEN "buy" ELSE "sell",
      IF Gt(macd, macdsignal) THEN "buy" ELSE "sell",
      IF Gt(adx, Num(adx_threshold)) THEN "buy" ELSE "sell">>

hybrid_always_majority(sma_short, sma_long, macd, macdsignal, adx, atr) ==
    LET signals == Votes(sma_short, sma_long, macd, macdsignal, adx)
    IN  IF Count(signals, "buy") >= 2 THEN "buy"
        ELSE IF Count(signals, "sell") >= 2 THEN "sell"
        ELSE "hold"

hybrid_always_unanimous(sma_short, sma_long, macd, macdsignal, adx, atr) ==
    LET signals == Votes(sma_short, sma_long, macd, macdsignal, adx)
    IN  IF Count(signals, "buy") = 3 THEN "buy"
        ELSE IF Count(signals, "sell") = 3 THEN "sell"
        ELSE "hold"

hybrid_trend_following_strategy(sma_short, sma_long, macd, macdsignal, adx, atr) ==
    LET sma_signal == IF Gt(sma_short, sma_long) THEN "buy" ELSE "sell"
        macd_signal == IF Gt(macd, macdsignal) THEN "buy" ELSE "sell"
        adx_signal == IF Gt(adx, Num(adx_threshold)) THEN "buy" ELSE "sell"
        is_volatile == Gt(atr, Num(volatility_threshold))
        signals == <<sma_signal, macd_signal, adx_signal>>
        buy_signals == Count(signals, "buy")
        sell_signals == Count(signals, "sell")
    IN  IF is_volatile
        THEN IF buy_signals >= 2 THEN "buy"
             ELSE IF sell_signals >= 2 THEN "sell"
             ELSE "hold"
        ELSE IF buy_signals = 3 THEN "buy"
             ELSE IF sell_signals = 3 THEN "sell"
             ELSE "hold"

-----------------------------------------------------------------------------
(* Three-indicator consensus variant (src/two_out_of_three_strat_trending.py) *)

consensus_unanimous(sma_short, sma_long, macd, macdsignal, adx) ==
    LET signals == Votes(sma_short, sma_long, macd, macdsignal, adx)
    IN  IF Count(signals, "buy") = 3 THEN "buy"
        ELSE IF Count(signals, "sell") = 3 THEN "sell"
        ELSE "hold"

consensus_trend_following_strategy(sma_short, sma_long, macd, macdsignal, adx) ==
    LET sma_signal == IF Gt(sma_short, sma_long) THEN "buy" ELSE "sell"
        macd_signal == IF Gt(macd, macdsignal) THEN "buy" ELSE "sell"
        adx_signal == IF Gt(adx, Num(adx_threshold)) THEN "buy" ELSE "sell"
        signals == <<sma_signal, macd_signal, adx_signal>>
        buy_signals == Count(signals, "buy")
        sell_signals == Count(signals, "sell")
    IN  IF buy_signals >= 2 THEN "buy"
        ELSE IF sell_signals >= 2 THEN "sell"
        ELSE "hold"

-----------------------------------------------------------------------------
(* Volatile-market evaluator *)

volatile_market_strategy_either(close, upperband, lowerband, rsi, atr) ==
    IF Lt(rsi, Num(rsi_oversold)) \/ Lt(close, lowerband)
    THEN Dict("buy", Float2(MinusAtr(close, atr)))
    ELSE IF Gt(rsi, Num(rsi_overbought)) \/ Gt(close, upperband)
    THEN Dict("sell", Float2(PlusAtr(close, atr)))
    ELSE Dict("hold", None)

volatile_market_strategy_stop_swapped(close, upperband, lowerband, rsi, atr) ==
    IF Lt(rsi, Num(rsi_oversold)) /\ Lt(close, lowerband)
    THEN Dict("buy", Float2(PlusAtr(close, atr)))
    ELSE IF Gt(rsi, Num(rsi_overbought)) /\ Gt(close, upperband)
    THEN Dict("sell", Float2(MinusAtr(close, atr)))
    ELSE Dict("hold", None)

volatile_market_strategy(close, upperband, lowerband, rsi, atr) ==
    LET is_overbought == Gt(rsi, Num(rsi_overbought))
        is_oversold == Lt(rsi, Num(rsi_oversold))
        price_above_upper_band == Gt(close, upperband)
        price_below_lower_band == Lt(close, lowerband)
        current_atr == atr
    IN  IF is_oversold /\ price_below_lower_band
        THEN Dict("buy", Float2(MinusAtr(close, current_atr)))
        ELSE IF is_overbought /\ price_above_upper_band
        THEN Dict("sell", Float2(PlusAtr(close, current_atr)))
        ELSE Dict("hold", None)

-----------------------------------------------------------------------------
(* Default evaluator *)

default_strategy_two_of_three(close, macd, macdsignal, rsi, sar) ==
    LET ups == <<Gt(macd, macdsignal), Lt(rsi, Num(rsi_oversold)), Gt(close, sar)>>
        downs == <<Lt(macd, macdsignal), Gt(rsi, Num(rsi_overbought)), Lt(close, sar)>>
    IN  IF Count(ups, TRUE) >= 2 THEN "buy"
        ELSE IF Count(downs, TRUE) >= 2 THEN "sell"
        ELSE "hold"

default_strategy(close, macd, macdsignal, rsi, sar) ==
    LET last_price == close
        macd_cross_up == Gt(macd, macdsignal)
        macd_cross_down == Lt(macd, macdsignal)
        oversold == Lt(rsi, Num(rsi_oversold))
        overbought == Gt(rsi, Num(rsi_overbought))
        price_above_sar == Gt(last_price, sar)
        price_below_sar == Lt(last_price, sar)
    IN  IF macd_cross_up /\ oversold /\ price_above_sar
        THEN "buy"
        ELSE IF macd_cross_down /\ overbought /\ price_below_sar
        THEN "sell"
        ELSE "hold"

-----------------------------------------------------------------------------
(* Indicator snapshots: the inputs the functions are applied to *)

\* bars the library needs before the last value of an indicator is defined
AdxBars == 2 * adx_window
AtrBars == atr_window + 1
RsiBars == rsi_period + 1
BbandsBars == bbands_window
MacdBars == macd_slow + macd_signal_period - 1
StochBars == stochastic_period + stochastic_slowk + stochastic_slowd - 2
SarBars == 2
\* the largest window any evaluator asks for (the long SMA)
LargestLookback == sma_long_window

BarCounts ==
    {1, BbandsBars, MacdBars, sma_long_window - 1, sma_long_window + ExtraBars}

Around(t) == (t - Spread) .. (t + Spread)
AdxVals == Around(ADX_THRESHOLD)
WidthVals == Around(BBANDS_WIDTH_THRESHOLD)
RsiVals == Around(rsi_oversold) \cup Around(rsi_overbought)
\* %K and %D lie in 0 .. 100
StochVals == {0, 100} \cup Around(stochastic_oversold) \cup Around(stochastic_overbought)
AtrVals == {0} \cup Around(volatility_threshold)
MacdVals == (0 - Spread) .. Spread
PriceVals == 1 .. (2 * Spread + 1)

Fields ==
    {"latest_adx", "latest_bbands_width", "sma_short", "sma_long", "macd",
     "macdsignal", "adx", "atr", "close", "upperband", "lowerband", "rsi",
     "slowk", "slowd", "sar"}
Blank == [f \in Fields |-> NaN]

ClassifyInputs(n) ==
    {[Blank EXCEPT
        !.latest_adx = LatestSmoothed(n, AdxBars, smoothing_window, a),
        !.latest_bbands_width = LatestSmoothed(n, BbandsBars, smoothing_window, w)]
     : a \in AdxVals, w \in WidthVals}

\* rolling(window, min_periods=1).mean(): defined from the first bar on, and the
\* short and the long mean are the same number while the window holds no more
\* bars than the short one
HybridInputs(n) ==
    {[Blank EXCEPT
        !.sma_short = Num(s), !.sma_long = Num(l),
        !.macd = Latest(n, MacdBars, m), !.macdsignal = Latest(n, MacdBars, g),
        !.adx = Latest(n, AdxBars, a), !.atr = Latest(n, AtrBars, t)]
     : s \in PriceVals, l \in PriceVals,
       m \in MacdVals, g \in MacdVals, a \in AdxVals, t \in AtrVals}

\* the bands lie around the middle band: lowerband <= upperband
SidewaysInputs(n) ==
    {[Blank EXCEPT
        !.close = Num(c),
        !.upperband = Latest(n, BbandsBars, u), !.lowerband = Latest(n, BbandsBars, l),
        !.rsi = Latest(n, RsiBars, r),
        !.slowk = Latest(n, StochBars, k), !.slowd = Latest(n, StochBars, d)]
     : c \in PriceVals, u \in PriceVals, l \in PriceVals, r \in RsiVals,
       k \in StochVals, d \in StochVals}

VolatileInputs(n) ==
    {[Blank EXCEPT
        !.close = Num(c),
        !.upperband = Latest(n, BbandsBars, u), !.lowerband = Latest(n, BbandsBars, l),
        !.rsi = Latest(n, RsiBars, r), !.atr = Latest(n, AtrBars, t)]
     : c \in PriceVals, u \in PriceVals, l \in PriceVals, r \in RsiVals,
       t \in AtrVals}

DefaultInputs(n) ==
    {[Blank EXCEPT
        !.close = Num(c),
        !.macd = Latest(n, MacdBars, m), !.macdsignal = Latest(n, MacdBars, g),
        !.rsi = Latest(n, RsiBars, r), !.sar = Latest(n, SarBars, p)]
     : c \in PriceVals, m \in MacdVals, g \in MacdVals, r \in RsiVals,
       p \in PriceVals}

BandsOrdered(i) == i.lowerband.nan \/ i.upperband.nan \/ i.lowerband.v <= i.upperband.v
SmaConsistent(n, i) == n > sma_short_window \/ i.sma_short = i.sma_long

-----------------------------------------------------------------------------
(* The steps of the polling loop of src/new.py *)

\* Python's binding of a call's arguments to a function's parameters:
\* positional arguments fill the parameters from the left, and a keyword that
\* names a parameter already filled, or no parameter at all, is a TypeError
BindCall(params, npositional, keywords) ==
    IF npositional > Len(params) THEN "TypeError"
    ELSE IF \E k \in keywords : k \notin {params[i] : i \in DOMAIN params} THEN "TypeError"
    ELSE IF \E i \in 1 .. npositional : params[i] \in keywords THEN "TypeError"
    ELSE "ok"

\* def fetch_binance_data(symbol, interval='1m', lookback='1 day')
fetch_binance_data_params == <<"symbol", "interval", "lookback">>

\* the columns of the DataFrame fetch_binance_data returns
DataColumns ==
    {"open", "high", "low", "close", "volume", "close_time", "quote_asset_volume",
     "number_of_trades", "taker_buy_base_asset_volume",
     "taker_buy_quote_asset_volume", "ignore"}

\* the columns the classifier and the evaluators index the DataFrame by
ReadColumns == {"High", "Low", "Close"}

\* the strategy function applied to the fetched snapshot
ApplyStrategy(name, d) ==
    IF name = "hybrid_trend_following_strategy"
    THEN Str(hybrid_trend_following_strategy(
                d.sma_short, d.sma_long, d.macd, d.macdsignal, d.adx, d.atr))
    ELSE IF name = "sideways_market_strategy"
    THEN Str(sideways_market_strategy(
                d.close, d.upperband, d.lowerband, d.rsi, d.slowk, d.slowd))
    ELSE IF name = "volatile_market_strategy"
    THEN volatile_market_strategy(d.close, d.upperband, d.lowerband, d.rsi, d.atr)
    ELSE Str(default_strategy(d.close, d.macd, d.macdsignal, d.rsi, d.sar))

\* `if trading_action:` instead: any non-empty string or dict passes
InBuySell_truthy(trading_action) == trading_action.type # "none"

\* `trading_action in ['buy', 'sell']`: a dict equals neither string
InBuySell(trading_action) ==
    trading_action.type = "str" /\ trading_action.action \in {"buy", "sell"}

\* balance * risk_percentage / 100
calculate_trade_amount(balance) == (balance * risk_percentage) \div 100

\* execute_trade: the order call inside its own try/except; a raised error is
\* printed and None is returned
execute_trade(e, side) ==
    IF side \in {"buy", "sell"} /\ e.order = "filled" THEN "order" ELSE "None"

\* the exchange call execute_trade makes: none for a side that is neither
\* 'buy' nor 'sell' (ValueError, caught inside execute_trade)
order_calls(side) ==
    IF side \in {"buy", "sell"} THEN <<"order_market_" \o side>> ELSE <<>>

\* what a run of the try body leaves: how it ended, the exchange calls it made,
\* and the locals it assigned (`bound`) with their values
Ended(kind, exc, at, made, bound, d, mc, ts, ta) ==
    [kind |-> kind, exc |-> exc, at |-> at, calls |-> made, bound |-> bound,
     data |-> d, market_condition |-> mc, trading_strategy |-> ts,
     trading_action |-> ta]

\* lines 306-321: select the strategy, evaluate it, and trade on 'buy' or 'sell'
select_evaluate_execute(market_condition, data, e) ==
    LET trading_strategy == select_strategy_based_on_condition(market_condition)
        trading_action == ApplyStrategy(trading_strategy, data)
        bound == {"data", "market_condition", "trading_strategy", "trading_action"}
    IN  IF ~InBuySell(trading_action)
        THEN Ended("hold", "none", "none", <<"get_historical_klines">>, bound,
                   data, market_condition, trading_strategy, trading_action)
        ELSE IF e.account = "error"
        THEN Ended("exception", "BinanceAPIException", "size",
                   <<"get_historical_klines", "get_asset_balance">>, bound,
                   data, market_condition, trading_strategy, trading_action)
        ELSE
        LET trade_amount == calculate_trade_amount(e.balance)
            order_result == execute_trade(e, trading_action.action)
        IN  Ended(IF order_result = "None" THEN "order_failed" ELSE "order",
                  "none", "none",
                  <<"get_historical_klines", "get_asset_balance">>
                    \o order_calls(trading_action.action), bound,
                  data, market_condition, trading_strategy, trading_action)

\* the body of the try statement, run on what the exchange answers in this cycle
try_body(e) ==
    IF BindCall(fetch_binance_data_params, 2, {"interval"}) # "ok"
    THEN Ended("exception", "TypeError", "fetch", <<>>, {},
               Blank, "none", "none", NoResult)
    ELSE IF e.klines = "error"
    THEN Ended("exception", "BinanceAPIException", "fetch",
               <<"get_historical_klines">>, {}, Blank, "none", "none", NoResult)
    ELSE IF ~(ReadColumns \subseteq DataColumns)
    THEN Ended("exception", "KeyError", "classify",
               <<"get_historical_klines">>, {"data"}, e.market, "none", "none",
               NoResult)
    ELSE
    LET data == e.market
        market_condition ==
            identify_market_condition(data.latest_adx, data.latest_bbands_width)
    IN  select_evaluate_execute(market_condition, data, e)

\* what the exchange may answer in a cycle
Snapshot(a, w, r) ==
    LET low == r < rsi_oversold
    IN  [Blank EXCEPT
            !.latest_adx = Num(a), !.latest_bbands_width = Num(w), !.adx = Num(a),
            !.rsi = Num(r), !.slowk = Num(r), !.slowd = Num(r),
            !.close = Num(IF low THEN 1 ELSE 3),
            !.lowerband = Num(2), !.upperband = Num(2), !.sar = Num(2),
            !.sma_short = Num(IF low THEN 1 ELSE 3), !.sma_long = Num(2),
            !.macd = Num(IF low THEN 0 - 1 ELSE 1), !.macdsignal = Num(0),
            !.atr = Num(volatility_threshold + 1)]

Markets ==
    {Snapshot(a, w, r) :
        a \in {ADX_THRESHOLD - 1, ADX_THRESHOLD + 1},
        w \in {BBANDS_WIDTH_THRESHOLD - 1, BBANDS_WIDTH_THRESHOLD + 1},
        r \in {rsi_oversold - 1, rsi_overbought + 1}}

Envs ==
    [klines : {"ok", "error"}, market : Markets, account : {"ok", "error"},
     balance : {100}, order : {"filled", "rejected"}]

Outcome(r) == [kind |-> r.kind, exc |-> r.exc, at |-> r.at]

-----------------------------------------------------------------------------
(* The functions applied to a snapshot *)

Inputs(f, n) ==
    IF f = "classify" THEN ClassifyInputs(n)
    ELSE IF f \in {"hybrid", "consensus"}
    THEN {i \in HybridInputs(n) : SmaConsistent(n, i)}
    ELSE IF f = "sideways" THEN {i \in SidewaysInputs(n) : BandsOrdered(i)}
    ELSE IF f = "volatile" THEN {i \in VolatileInputs(n) : BandsOrdered(i)}
    ELSE IF f = "default" THEN DefaultInputs(n)
    ELSE IF f = "dispatch" THEN Markets
    ELSE {Blank}

\* regime strings handed to the registry: the classifier's four and two others
RegimeInputs ==
    {"trending", "sideways", "volatile", "trending and volatile", "Trending", ""}

Fns ==
    {"classify", "select", "hybrid", "consensus", "sideways", "volatile", "default",
     "dispatch"}

Idle == [klines |-> "none", market |-> Blank, balance |-> 0, order |-> "none"]
NoOutcome == [kind |-> "none", exc |-> "none", at |-> "none"]

LoopIdle ==
    /\ pc = "idle" /\ cycle = 0 /\ fetches = 0 /\ sleeps = 0
    /\ slept = 0 /\ outcome = NoOutcome /\ calls = <<>> /\ first = <<>>

\* for "dispatch": a fetched snapshot, already classified, and what the
\* exchange answers to the balance query and the order
Init ==
    /\ fn \in Fns
    /\ nbars \in IF fn \in {"select", "dispatch"} THEN {LargestLookback} ELSE BarCounts
    /\ inp \in Inputs(fn, nbars)
    /\ regime \in IF fn = "select" THEN RegimeInputs
                  ELSE IF fn = "dispatch"
                  THEN {identify_market_condition(inp.latest_adx,
                                                  inp.latest_bbands_width)}
                  ELSE {"none"}
    /\ strategy = "none"
    /\ result = NoResult
    /\ env \in IF fn = "dispatch"
               THEN {e \in Envs : e.klines = "ok" /\ e.market = inp}
               ELSE {Idle}
    /\ LoopIdle

Classify ==
    /\ fn = "classify" /\ regime = "none"
    /\ regime' = identify_market_condition(inp.latest_adx, inp.latest_bbands_width)
    /\ UNCHANGED <<fn, nbars, inp, strategy, result>>
    /\ UNCHANGED loopVars

Select ==
    /\ fn \in {"classify", "select"} /\ regime # "none" /\ strategy = "none"
    /\ strategy' = select_strategy_based_on_condition(regime)
    /\ UNCHANGED <<fn, nbars, inp, regime, result>>
    /\ UNCHANGED loopVars

Hybrid ==
    /\ fn = "hybrid" /\ result = NoResult
    /\ result' = Str(hybrid_trend_following_strategy(
                        inp.sma_short, inp.sma_long, inp.macd, inp.macdsignal,
                        inp.adx, inp.atr))
    /\ UNCHANGED <<fn, nbars, inp, regime, strategy>>
    /\ UNCHANGED loopVars

Sideways ==
    /\ fn = "sideways" /\ result = NoResult
    /\ result' = Str(sideways_market_strategy(
                        inp.close, inp.upperband, inp.lowerband, inp.rsi,
                        inp.slowk, inp.slowd))
    /\ UNCHANGED <<fn, nbars, inp, regime, strategy>>
    /\ UNCHANGED loopVars

Volatile ==
    /\ fn = "volatile" /\ result = NoResult
    /\ result' = volatile_market_strategy(
                    inp.close, inp.upperband, inp.lowerband, inp.rsi, inp.atr)
    /\ UNCHANGED <<fn, nbars, inp, regime, strategy>>
    /\ UNCHANGED loopVars

Default ==
    /\ fn = "default" /\ result = NoResult
    /\ result' = Str(default_strategy(
                        inp.close, inp.macd, inp.macdsignal, inp.rsi, inp.sar))
    /\ UNCHANGED <<fn, nbars, inp, regime, strategy>>
    /\ UNCHANGED loopVars

Consensus ==
    /\ fn = "consensus" /\ result = NoResult
    /\ result' = Str(consensus_trend_following_strategy(
                        inp.sma_short, inp.sma_long, inp.macd, inp.macdsignal,
                        inp.adx))
    /\ UNCHANGED <<fn, nbars, inp, regime, strategy>>
    /\ UNCHANGED loopVars

\* new.py lines 306-321 on a classified snapshot
Dispatch ==
    /\ fn = "dispatch" /\ result = NoResult
    /\ LET r == select_evaluate_execute(regime, inp, env)
       IN  /\ strategy' = r.trading_strategy
           /\ result' = r.trading_action
           /\ calls' = r.calls
           /\ outcome' = Outcome(r)
    /\ UNCHANGED <<fn, nbars, inp, regime, pc, cycle, env, fetches, sleeps, slept,
                   first>>

Next ==
    \/ Classify \/ Select \/ Hybrid \/ Consensus \/ Sideways \/ Volatile \/ Default
    \/ Dispatch

Spec == Init /\ [][Next]_vars

-----------------------------------------------------------------------------
(* Properties of the classifier and the registry *)

Regimes == {"trending and volatile", "trending", "volatile", "sideways"}
Strategies ==
    {"hybrid_trend_following_strategy", "sideways_market_strategy",
     "volatile_market_strategy", "default_strategy"}

Classified == fn = "classify" /\ regime # "none"
AdxExceeded == ~inp.latest_adx.nan /\ inp.latest_adx.v > ADX_THRESHOLD
WidthExceeded ==
    ~inp.latest_bbands_width.nan /\ inp.latest_bbands_width.v > BBANDS_WIDTH_THRESHOLD

Selected == strategy # "none"

\* C2: select_strategy_based_on_condition is total: 'trending' selects the
\* hybrid trend strategy, 'sideways' the sideways strategy, 'volatile' the
\* volatile strategy, and every other value, 'trending and volatile' included,
\* the default strategy; every classifier output selects exactly one strategy.
C2_RegistryTotal ==
    Selected =>
        /\ strategy \in Strategies
        /\ (regime = "trending") <=> (strategy = "hybrid_trend_following_strategy")
        /\ (regime = "sideways") <=> (strategy = "sideways_market_strategy")
        /\ (regime = "volatile") <=> (strategy = "volatile_market_strategy")
        /\ (regime \notin {"trending", "sideways", "volatile"})
              <=> (strategy = "default_strategy")
        /\ (fn = "classify") => (regime \in Regimes)

C2_Witness ==
    /\ fn = "classify" /\ Selected
    /\ regime = "trending and volatile" /\ strategy = "default_strategy"

-----------------------------------------------------------------------------
(* Short windows *)

Evaluated == result # NoResult
Undefined(fields) == \E f \in fields : inp[f].nan
Reads ==
    [classify |-> {"latest_adx", "latest_bbands_width"},
     hybrid |-> {"macd", "macdsignal", "adx", "atr"},
     sideways |-> {"upperband", "lowerband", "rsi", "slowk", "slowd"},
     volatile |-> {"upperband", "lowerband", "rsi", "atr"},
     default |-> {"macd", "macdsignal", "rsi", "sar"}]
ShortWindow ==
    /\ fn \in DOMAIN Reads
    /\ nbars < LargestLookback
    /\ Undefined(Reads[fn])

\* C3: on a window shorter than the largest lookback, with undefined latest
\* indicator values, the evaluation fails with InsufficientData: the
\* classifier returns no regime and no evaluator returns buy, sell or hold.
C3_InsufficientData ==
    ShortWindow =>
        /\ regime \notin Regimes
        /\ result.action \notin {"buy", "sell", "hold"}

-----------------------------------------------------------------------------
(* Properties of the trend-following evaluator *)

SmaBuy == ~inp.sma_short.nan /\ ~inp.sma_long.nan /\ inp.sma_short.v > inp.sma_long.v
MacdBuy == ~inp.macd.nan /\ ~inp.macdsignal.nan /\ inp.macd.v > inp.macdsignal.v
AdxBuy == ~inp.adx.nan /\ inp.adx.v > adx_threshold
BuyVotes == Cardinality({i \in 1 .. 3 : <<SmaBuy, MacdBuy, AdxBuy>>[i]})
SellVotes == 3 - BuyVotes
AtrAbove == ~inp.atr.nan /\ inp.atr.v > volatility_threshold
HybridDone == fn = "hybrid" /\ Evaluated

\* C4: with ATR not above volatility_threshold the result is 'buy' only when
\* all three votes are 'buy', 'sell' only when all three are 'sell', and 'hold'
\* for every mixed combination: one dissenting vote forces 'hold'.
C4_Unanimous ==
    (HybridDone /\ ~AtrAbove) =>
        /\ (result.action = "buy") <=> (BuyVotes = 3)
        /\ (result.action = "sell") <=> (SellVotes = 3)
        /\ (result.action = "hold") <=> (BuyVotes \in {1, 2})

C4_Witness ==
    /\ HybridDone /\ ~AtrAbove /\ ~inp.atr.nan
    /\ BuyVotes = 2 /\ result.action = "hold"

\* C5: with ATR above volatility_threshold, 2 or 3 'buy' votes yield 'buy' and
\* 0 or 1 'buy' votes (2 or 3 'sell' votes) yield 'sell'; the rule is the same
\* with buy and sell swapped.
C5_Majority ==
    (HybridDone /\ AtrAbove) =>
        /\ (result.action = "buy") <=> (BuyVotes >= 2)
        /\ (result.action = "sell") <=> (SellVotes >= 2)
        /\ result.action # "hold"

C5_Witness ==
    /\ HybridDone /\ AtrAbove
    /\ BuyVotes = 1 /\ result.action = "sell"

-----------------------------------------------------------------------------
(* Properties of the sideways evaluator *)

Below(a, b) == ~inp[a].nan /\ ~inp[b].nan /\ inp[a].v < inp[b].v
Above(a, b) == ~inp[a].nan /\ ~inp[b].nan /\ inp[a].v > inp[b].v
Under(a, t) == ~inp[a].nan /\ inp[a].v < t
Over(a, t) == ~inp[a].nan /\ inp[a].v > t

BuyTrigger ==
    \/ Below("close", "lowerband")
    \/ Under("rsi", rsi_oversold)
    \/ (Under("slowk", stochastic_oversold) /\ Above("slowk", "slowd"))
SellTrigger ==
    \/ Above("close", "upperband")
    \/ Over("rsi", rsi_overbought)
    \/ (Over("slowk", stochastic_overbought) /\ Below("slowk", "slowd"))
SidewaysDone == fn = "sideways" /\ Evaluated

\* C6 as stated: 'buy' whenever a buy trigger holds, 'sell' whenever a sell
\* trigger holds, 'hold' exactly when none of the six triggers holds.
C6_AnyTriggerFires ==
    SidewaysDone =>
        /\ BuyTrigger => result.action = "buy"
        /\ SellTrigger => result.action = "sell"
        /\ (result.action = "hold") <=> (~BuyTrigger /\ ~SellTrigger)

\* C6 amended: 'buy' whenever at least one buy trigger holds, 'sell' whenever
\* at least one sell trigger holds and no buy trigger holds, 'hold' exactly
\* when none of the six triggers holds.
C6_AnyTriggerBuyFirst ==
    SidewaysDone =>
        /\ (result.action = "buy") <=> BuyTrigger
        /\ (result.action = "sell") <=> (SellTrigger /\ ~BuyTrigger)
        /\ (result.action = "hold") <=> (~BuyTrigger /\ ~SellTrigger)

\* one trigger alone fires: only the stochastic sell trigger holds
C6_Witness ==
    /\ SidewaysDone /\ result.action = "sell"
    /\ ~Above("close", "upperband") /\ ~Over("rsi", rsi_overbought)
    /\ ~inp.upperband.nan /\ ~inp.rsi.nan

-----------------------------------------------------------------------------
(* Properties of the volatile-market evaluator *)

VolatileDone == fn = "volatile" /\ Evaluated
BuyPair == Under("rsi", rsi_oversold) /\ Below("close", "lowerband")
SellPair == Over("rsi", rsi_overbought) /\ Above("close", "upperband")

\* C7: the action is 'buy' exactly when RSI < 30 and close < lower band,
\* 'sell' exactly when RSI > 70 and close > upper band, 'hold' otherwise, also
\* when only one condition of a pair holds.
C7_BothRequired ==
    VolatileDone =>
        /\ result.type = "dict"
        /\ (result.action = "buy") <=> BuyPair
        /\ (result.action = "sell") <=> SellPair
        /\ (result.action = "hold") <=> (~BuyPair /\ ~SellPair)

C7_Witness ==
    /\ VolatileDone /\ result.action = "hold"
    /\ Under("rsi", rsi_oversold) /\ ~Below("close", "lowerband")
    /\ ~inp.lowerband.nan

\* C8: stop_loss is None exactly when the action is 'hold'; on 'buy' it is
\* close - 1.5*ATR, not above close, on 'sell' close + 1.5*ATR, not below
\* close (ATR >= 0; the stop-loss is in half price units).
C8_StopLoss ==
    VolatileDone =>
        /\ (result.stop_loss = None) <=> (result.action = "hold")
        /\ (result.action = "buy") =>
              /\ result.stop_loss.kind = "float" /\ ~result.stop_loss.nan
              /\ result.stop_loss.v = 2 * inp.close.v - 3 * inp.atr.v
              /\ result.stop_loss.v <= 2 * inp.close.v
        /\ (result.action = "sell") =>
              /\ result.stop_loss.kind = "float" /\ ~result.stop_loss.nan
              /\ result.stop_loss.v = 2 * inp.close.v + 3 * inp.atr.v
              /\ result.stop_loss.v >= 2 * inp.close.v

C8_Witness ==
    /\ VolatileDone /\ result.action = "buy"
    /\ inp.atr.v > 0 /\ result.stop_loss.v < 2 * inp.close.v

-----------------------------------------------------------------------------
(* Properties of the default evaluator *)

DefaultDone == fn = "default" /\ Evaluated
BuyAll ==
    Above("macd", "macdsignal") /\ Under("rsi", rsi_oversold) /\ Above("close", "sar")
SellAll ==
    Below("macd", "macdsignal") /\ Over("rsi", rsi_overbought) /\ Below("close", "sar")

Readings(S) == {NaN} \cup {Num(x) : x \in S}

\* default_strategy on the snapshot with one reading replaced
With(f, r) ==
    LET i == [inp EXCEPT ![f] = r]
    IN  default_strategy(i.close, i.macd, i.macdsignal, i.rsi, i.sar)

\* C9: 'buy' iff MACD > signal and RSI < 30 and close > SAR, 'sell' iff MACD <
\* signal and RSI > 70 and close < SAR, 'hold' otherwise; from an input that
\* yields 'buy' or 'sell', making one of its three conditions false gives
\* 'hold', never the opposite signal.
C9_AndConsensus ==
    DefaultDone =>
        /\ (result.action = "buy") <=> BuyAll
        /\ (result.action = "sell") <=> SellAll
        /\ (result.action = "hold") <=> (~BuyAll /\ ~SellAll)
        /\ (result.action = "buy") =>
              /\ \A r \in Readings(MacdVals) :
                    ~Gt(r, inp.macdsignal) => With("macd", r) = "hold"
              /\ \A r \in Readings(RsiVals) :
                    ~Lt(r, Num(rsi_oversold)) => With("rsi", r) = "hold"
              /\ \A r \in Readings(PriceVals) :
                    ~Gt(inp.close, r) => With("sar", r) = "hold"
        /\ (result.action = "sell") =>
              /\ \A r \in Readings(MacdVals) :
                    ~Lt(r, inp.macdsignal) => With("macd", r) = "hold"
              /\ \A r \in Readings(RsiVals) :
                    ~Gt(r, Num(rsi_overbought)) => With("rsi", r) = "hold"
              /\ \A r \in Readings(PriceVals) :
                    ~Lt(inp.close, r) => With("sar", r) = "hold"

C9_Witness ==
    /\ DefaultDone /\ result.action = "sell"
    /\ With("rsi", Num(rsi_oversold - 1)) = "hold"

-----------------------------------------------------------------------------
(* The loop *)

LoopInit ==
    /\ fn = "loop" /\ nbars = 0 /\ inp = Blank
    /\ regime = "none" /\ strategy = "none" /\ result = NoResult
    /\ pc = "try" /\ cycle = 1 /\ env \in Envs
    /\ fetches = 0 /\ sleeps = 0 /\ slept = 0
    /\ outcome = NoOutcome /\ calls = <<>> /\ first = <<>>

\* lines 298-321: the try body, up to its end or to the statement that raises
TryBody ==
    /\ pc = "try"
    /\ LET r == try_body(env)
       IN  /\ fetches' = fetches + 1
           /\ calls' = r.calls
           /\ outcome' = Outcome(r)
           /\ inp' = IF "data" \in r.bound THEN r.data ELSE inp
           /\ regime' = IF "market_condition" \in r.bound
                         THEN r.market_condition ELSE regime
           /\ strategy' = IF "trading_strategy" \in r.bound
                           THEN r.trading_strategy ELSE strategy
           /\ result' = IF "trading_action" \in r.bound
                         THEN r.trading_action ELSE result
           /\ first' = IF first = <<>> THEN <<[env |-> env, outcome |-> Outcome(r)]>>
                        ELSE first
           /\ pc' = IF r.kind = "exception" THEN "except" ELSE "sleep"
    /\ UNCHANGED <<fn, nbars, cycle, env, sleeps, slept>>

\* lines 323-324: except Exception as e: print
ExceptHandler ==
    /\ pc = "except"
    /\ pc' = "sleep"
    /\ UNCHANGED <<fn, nbars, inp, regime, strategy, result, cycle, env, fetches,
                   sleeps, slept, outcome, calls, first>>

Sleep_skipping_after_error ==
    /\ pc = "sleep"
    /\ cycle < MaxCycles
    /\ sleeps' = IF outcome.kind = "exception" THEN sleeps ELSE sleeps + 1
    /\ slept' = sleep_time
    /\ cycle' = cycle + 1
    /\ env' \in Envs
    /\ pc' = "try"
    /\ UNCHANGED <<fn, nbars, inp, regime, strategy, result, fetches, outcome,
                   calls, first>>

\* line 327: time.sleep(sleep_time), then the next iteration of while True
Sleep ==
    /\ pc = "sleep"
    /\ cycle < MaxCycles
    /\ sleeps' = sleeps + 1
    /\ slept' = sleep_time
    /\ cycle' = cycle + 1
    /\ env' \in Envs
    /\ pc' = "try"
    /\ UNCHANGED <<fn, nbars, inp, regime, strategy, result, fetches, outcome,
                   calls, first>>

LoopNext == TryBody \/ ExceptHandler \/ Sleep

SpecLoop == LoopInit /\ [][LoopNext]_vars

-----------------------------------------------------------------------------
(* Properties of the loop *)

-----------------------------------------------------------------------------
(* Readings exactly at a threshold *)

At(a, t) == ~inp[a].nan /\ inp[a].v = t
SmaTie == ~inp.sma_short.nan /\ inp.sma_short = inp.sma_long

\* C11: every threshold comparison is strict.  RSI exactly 70 is not
\* overbought and RSI exactly 30 is not oversold in the sideways, volatile and
\* default evaluators; in the hybrid evaluator tied SMAs and an ADX exactly at
\* adx_threshold each count as a 'sell' vote, and an ATR exactly at
\* volatility_threshold selects the 3-of-3 rule.
C11_StrictThresholds ==
    /\ (SidewaysDone /\ At("rsi", rsi_overbought)) =>
          /\ result.action # "sell" \/ Above("close", "upperband")
                \/ (Over("slowk", stochastic_overbought) /\ Below("slowk", "slowd"))
          /\ result.action # "buy" \/ Below("close", "lowerband")
                \/ (Under("slowk", stochastic_oversold) /\ Above("slowk", "slowd"))
    /\ (SidewaysDone /\ At("rsi", rsi_oversold)) =>
          /\ result.action # "buy" \/ Below("close", "lowerband")
                \/ (Under("slowk", stochastic_oversold) /\ Above("slowk", "slowd"))
    /\ (VolatileDone /\ At("rsi", rsi_overbought)) => result.action = "hold"
    /\ (VolatileDone /\ At("rsi", rsi_oversold)) => result.action = "hold"
    /\ (DefaultDone /\ At("rsi", rsi_overbought)) => result.action = "hold"
    /\ (DefaultDone /\ At("rsi", rsi_oversold)) => result.action = "hold"
    /\ (HybridDone /\ SmaTie) =>
          /\ (result.action = "buy") <=> (AtrAbove /\ MacdBuy /\ AdxBuy)
          /\ (~MacdBuy /\ ~AdxBuy) => result.action = "sell"
    /\ (HybridDone /\ At("adx", adx_threshold)) =>
          /\ (result.action = "buy") <=> (AtrAbove /\ SmaBuy /\ MacdBuy)
          /\ (~SmaBuy /\ ~MacdBuy) => result.action = "sell"
    /\ (HybridDone /\ At("atr", volatility_threshold)) =>
          /\ (result.action = "buy") <=> (SmaBuy /\ MacdBuy /\ AdxBuy)
          /\ (result.action = "sell") <=> (~SmaBuy /\ ~MacdBuy /\ ~AdxBuy)

\* RSI exactly 70 with the close above the upper band: only strictness holds
\* the volatile evaluator back
C11_Witness ==
    /\ VolatileDone /\ At("rsi", rsi_overbought) /\ Above("close", "upperband")
    /\ result.action = "hold"

-----------------------------------------------------------------------------
(* Properties of the steps after classification *)

Dispatched == fn = "dispatch" /\ Evaluated
Called(c) == \E i \in DOMAIN calls : calls[i] = c

\* C12: when the regime is 'volatile' and volatile_market_strategy yields
\* action 'buy' or 'sell', the signal is passed on to execution in the same
\* cycle: calculate_trade_amount and execute_trade are invoked with that side.
C12_VolatileSignalExecuted ==
    (Dispatched /\ regime = "volatile" /\ result.action \in {"buy", "sell"}) =>
        /\ Called("get_asset_balance")
        /\ env.account = "ok" => Called("order_market_" \o result.action)

-----------------------------------------------------------------------------
(* Properties of a cycle *)

CycleRan == fn = "loop" /\ pc # "try"

\* C13: a cycle in which the exchange returns a valid data window completes
\* the fetch and goes on through classify, dispatch and evaluate: it does not
\* end before a strategy has been evaluated.
C13_ValidWindowEvaluated ==
    (CycleRan /\ env.klines = "ok") =>
        /\ outcome.at \notin {"fetch", "classify"}
        /\ Called("get_historical_klines")

-----------------------------------------------------------------------------
(* Properties of the consensus variant *)

ConsensusDone == fn = "consensus" /\ Evaluated

\* the hybrid evaluator on the same votes with an ATR above volatility_threshold
HybridWhenVolatile ==
    hybrid_trend_following_strategy(
        inp.sma_short, inp.sma_long, inp.macd, inp.macdsignal, inp.adx,
        Num(volatility_threshold + 1))

\* C14: consensus_trend_following_strategy applies a flat 2-of-3 rule with no
\* volatility gate: whatever the ATR, it returns what the hybrid evaluator
\* returns in its ATR > threshold branch on the same votes, and never 'hold'.
C14_FlatMajority ==
    ConsensusDone =>
        /\ result.action = HybridWhenVolatile
        /\ (result.action = "buy") <=> (BuyVotes >= 2)
        /\ (result.action = "sell") <=> (SellVotes >= 2)
        /\ result.action # "hold"

\* two 'buy' votes on a calm market: the hybrid evaluator holds here
C14_Witness ==
    /\ ConsensusDone /\ ~inp.atr.nan /\ ~AtrAbove /\ BuyVotes = 2
    /\ result.action = "buy"
    /\ hybrid_trend_following_strategy(
            inp.sma_short, inp.sma_long, inp.macd, inp.macdsignal, inp.adx,
            inp.atr) = "hold"

-----------------------------------------------------------------------------
(* Precedence in the sideways evaluator *)

\* C15: when a buy trigger and a sell trigger hold for the same snapshot the
\* sideways evaluator returns 'buy', never 'sell' or 'hold'.
C15_BuyPrecedence ==
    (SidewaysDone /\ BuyTrigger /\ SellTrigger) => result.action = "buy"

\* RSI above 70 with the close below the lower band
C15_Witness ==
    /\ SidewaysDone /\ Over("rsi", rsi_overbought) /\ Below("close", "lowerband")
    /\ result.action = "buy"

-----------------------------------------------------------------------------
(* The loop together with its steps applied to classified snapshots *)

SpecAll == (Init \/ LoopInit) /\ [][Next \/ LoopNext]_vars

Orders == {i \in DOMAIN calls : calls[i] \in {"order_market_buy", "order_market_sell"}}
\* the cycle got as far as evaluating a strategy
EvaluatedNow == Dispatched \/ (CycleRan /\ outcome.at \notin {"fetch", "classify"})

\* C16: an order is submitted only in a cycle whose evaluated signal is 'buy'
\* or 'sell', with that side; a cycle whose signal is 'hold', or that raised
\* before evaluation, submits no order and queries no balance; no cycle
\* submits more than one order.
C16_OrdersFollowSignals ==
    (Dispatched \/ CycleRan) =>
        /\ Cardinality(Orders) <= 1
        /\ \A i \in Orders :
              /\ EvaluatedNow
              /\ result.action \in {"buy", "sell"}
              /\ calls[i] = "order_market_" \o result.action
        /\ (~EvaluatedNow \/ result.action = "hold") =>
              (Orders = {} /\ ~Called("get_asset_balance"))

\* a 'sell' signal of the hybrid evaluator, submitted as a sell order
C16_Witness ==
    /\ Dispatched /\ result.action = "sell" /\ Orders # {}
    /\ Called("order_market_sell") /\ ~Called("order_market_buy")

====
